---------------------------- MODULE Spec2Model ----------------------------
(***************************************************************************)
(* BirdBeaks: interpolation of ground magnetometer readings to arbitrary   *)
(* points (MagArray, src/__init__.py), the radar station catalog           *)
(* (load_radar_info, src/__init__.py) and the rolling maximum of |B|       *)
(* (src/convert_netcdf.py).                                                *)
(*                                                                         *)
(* Five specifications share the module:                                   *)
(*   Spec            a MagArray over one dataset, queried through __call__ *)
(*   SpecHistory     the same calls at one point, over longer histories    *)
(*   SpecConcurrent  two threads calling one MagArray, statement by        *)
(*                   statement, with no synchronization                    *)
(*   SpecCatalog     load_radar_info reading the rows of the station CSV   *)
(*   SpecRolling     the rolling-maximum loop of convert_netcdf.py         *)
(* Each holds the variables of the others at their idle values.            *)
(*                                                                         *)
(* Numbers: coordinates and readings are integers.  An interpolated value  *)
(* is an exact fraction [num, den] in lowest terms with den > 0; the       *)
(* fraction 0/0 stands for NaN.  A reading that is NaN is the value NaN    *)
(* below (readings are magnitudes, never negative).                        *)
(***************************************************************************)
EXTENDS Integers, Sequences, FiniteSets, TLC

VARIABLES
    \* ---- MagArray (Spec) ----
    data,         \* self.data: the dataset, data.time and data.b[station][k]
    interp,       \* self.interp: dict time -> interpolator object
    interp_mags,  \* self.interp_mags: stations kept by the last filter
    result,       \* what the last __call__ did: its arguments and outcome
    nquery,       \* per timestamp: number of __call__ invocations
    nstarted,     \* per timestamp: number of _create_interp invocations
    nbuilt,       \* per timestamp: number of insertions into self.interp
    nq,           \* number of calls made so far
    \* ---- load_radar_info (SpecCatalog) ----
    csv,          \* the data rows of radar_stations_ALL.csv still to read
    info,         \* the dictionary being filled
    nrows,        \* number of rows read so far
    \* ---- convert_netcdf rolling maximum (SpecRolling) ----
    series,       \* data[s]['b'] of one station
    width,        \* int(floor(windowsize/2))
    bmax,         \* data[s]['bmax'], filled up to index ri
    ri,           \* loop index i (0-based), number of entries done
    \* ---- two threads calling one MagArray (SpecConcurrent) ----
    callers,      \* per thread: where it is in __call__, its arguments, locals
    inserts       \* the executions of self.interp[time] = ..., in order

magvars  == <<data, interp, interp_mags, result, nquery, nstarted, nbuilt, nq>>
catvars  == <<csv, info, nrows>>
rollvars == <<series, width, bmax, ri>>
concvars == <<callers, inserts>>
vars     == <<magvars, catvars, rollvars, concvars>>

----------------------------------------------------------------------------
(* Bounds of the model *)

\* number of __call__ invocations explored in one run
MaxQueries == 2

\* number of __call__ invocations explored in one run of SpecHistory
MaxHistory == 3

\* number of data rows of the station CSV
MaxRows == 2

\* length of the reading series the rolling maximum runs over
MaxSeriesLen == 4

----------------------------------------------------------------------------
(* Values *)

\* np.nan as a reading
NaN == -1

\* np.isfinite on a reading
IsFinite(v) == v # NaN

\* NaN as an interpolated value
NaNValue == [num |-> 0, den |-> 0]

\* np.isnan on an interpolated value
IsNaN(p) == p.den = 0

Abs(x) == IF x < 0 THEN -x ELSE x

RECURSIVE GCD(_, _)
GCD(a, b) == IF b = 0 THEN a ELSE GCD(b, a % b)

\* the fraction n/d (d # 0) in lowest terms with a positive denominator
Frac(n, d) ==
    LET g == GCD(Abs(n), Abs(d))
        s == IF d < 0 THEN -1 ELSE 1
    IN  [num |-> (s * n) \div g, den |-> (s * d) \div g]

----------------------------------------------------------------------------
(* The dataset handed to MagArray *)

\* list(self.data.keys()) without 'time', in the dictionary's order
Mags == <<"M01", "M02", "M03", "M04">>

Stations == {Mags[i] : i \in 1..Len(Mags)}

\* data[m]['geolon'], data[m]['geolat'].  M04 lies on the segment M02-M03,
\* so {M02, M03, M04} is a collinear station set.
Coord(m) ==
    CASE m = "M01" -> <<0, 0>>
      [] m = "M02" -> <<4, 0>>
      [] m = "M03" -> <<0, 4>>
      [] m = "M04" -> <<2, 2>>

\* data['time']: the shared time index, strictly increasing, with tick 3 absent
Times == <<1, 2, 4>>

\* the finite reading of station m at index k, when it has one
Reading(m, k) ==
    CASE m = "M01" -> 1 + k
      [] m = "M02" -> 2 + k
      [] m = "M03" -> 3 + k
      [] m = "M04" -> 7 + 2 * k

\* the sets of stations with a finite reading that a timestamp may have:
\* all four, one station missing (three ways, the last leaving a collinear
\* set), two stations, none
Masks ==
    << {"M01", "M02", "M03", "M04"},
       {"M01", "M02", "M03"},
       {"M01", "M03", "M04"},
       {"M02", "M03", "M04"},
       {"M01", "M02"},
       {} >>

\* the assignments of a mask to each index of the time index that Init draws
\* from: the first two indices take every pair of masks, the third follows
Goods ==
    { <<Masks[i], Masks[j], Masks[((i + j) % Len(Masks)) + 1]>> :
        i \in 1..Len(Masks), j \in 1..Len(Masks) }

\* the dataset in which the stations of good[k] have a finite reading at index k
Dataset(good) ==
    [time |-> Times,
     b    |-> [m \in Stations |->
                 [k \in 1..Len(Times) |->
                    IF m \in good[k] THEN Reading(m, k) ELSE NaN]]]

\* the timestamps and points a caller may pass
QueryTimes == 0..5
QueryPoints == {<<2, 1>>, <<2, 2>>, <<0, 0>>, <<4, 0>>, <<5, 5>>}


----------------------------------------------------------------------------
(* scipy.interpolate.LinearNDInterpolator, as MagArray uses it: a Delaunay *)
(* triangulation of the points and barycentric interpolation inside it.    *)

\* twice the signed area of the triangle o, a, b
Cross(o, a, b) ==
    (a[1] - o[1]) * (b[2] - o[2]) - (a[2] - o[2]) * (b[1] - o[1])

\* d lies strictly inside the circle through the non-collinear a, b, c
InCircumcircle(a, b, c, d) ==
    LET ax == a[1] - d[1]
        ay == a[2] - d[2]
        bx == b[1] - d[1]
        by == b[2] - d[2]
        cx == c[1] - d[1]
        cy == c[2] - d[2]
        det == (ax * ax + ay * ay) * (bx * cy - cx * by)
             - (bx * bx + by * by) * (ax * cy - cx * ay)
             + (cx * cx + cy * cy) * (ax * by - bx * ay)
    IN  det * Cross(a, b, c) > 0

\* the Delaunay simplices of a point array: the non-degenerate triangles
\* <<i, j, k>> whose circumcircle holds no other point
Simplices(points) ==
    LET n == Len(points)
    IN  { t \in (1..n) \X (1..n) \X (1..n) :
            /\ t[1] < t[2]
            /\ t[2] < t[3]
            /\ Cross(points[t[1]], points[t[2]], points[t[3]]) # 0
            /\ \A l \in 1..n :
                 l \in {t[1], t[2], t[3]}
                 \/ ~InCircumcircle(points[t[1]], points[t[2]], points[t[3]],
                                    points[l]) }

\* the constructor raises: mismatched arrays, or Qhull finds no initial
\* simplex (fewer than 3 points, or all of them collinear)
ConstructorRaises(points, values) ==
    \/ Len(points) # Len(values)
    \/ Simplices(points) = {}

\* the interpolator object
LinearNDInterpolator(points, values) ==
    [points |-> points, values |-> values, simplices |-> Simplices(points)]

\* the point p lies in the closed triangle t of the object
InSimplex(obj, t, p) ==
    LET a == obj.points[t[1]]
        b == obj.points[t[2]]
        c == obj.points[t[3]]
        area == Cross(a, b, c)
    IN  /\ Cross(p, b, c) * area >= 0
        /\ Cross(p, c, a) * area >= 0
        /\ Cross(p, a, b) * area >= 0

\* obj(lon, lat): the barycentric combination of the vertex values of the
\* simplex holding the point (NaN when one of them is NaN: 0 * NaN is NaN),
\* NaN outside the triangulation
Evaluate(obj, lon, lat) ==
    LET p == <<lon, lat>>
        holding == {t \in obj.simplices : InSimplex(obj, t, p)}
    IN  IF holding = {} THEN NaNValue
        ELSE LET t == CHOOSE s \in holding : TRUE
                 a == obj.points[t[1]]
                 b == obj.points[t[2]]
                 c == obj.points[t[3]]
             IN  IF \E i \in 1..3 : ~IsFinite(obj.values[t[i]])
                 THEN NaNValue
                 ELSE Frac(Cross(p, b, c) * obj.values[t[1]]
                           + Cross(p, c, a) * obj.values[t[2]]
                           + Cross(p, a, b) * obj.values[t[3]],
                           Cross(a, b, c))

----------------------------------------------------------------------------
(* MagArray *)

\* numpy boolean-mask indexing arr[filter]
RECURSIVE Compress(_, _)
Compress(arr, filter) ==
    IF arr = <<>> THEN <<>>
    ELSE LET rest == Compress(Tail(arr), Tail(filter))
         IN  IF Head(filter) THEN <<Head(arr)>> \o rest ELSE rest

\* __init__: self.points[i,:] = (geolon, geolat) of the i-th station
Points == [i \in 1..Len(Mags) |-> Coord(Mags[i])]

\* the bounds check with the lower bound forgotten
OutOfBounds_UpperOnly(time) == time > data.time[Len(data.time)]

\* the bounds check made exclusive at both ends
OutOfBounds_Exclusive(time) ==
    time >= data.time[Len(data.time)] \/ time <= data.time[1]

\* __call__: the bounds check on the requested time
OutOfBounds(time) ==
    time > data.time[Len(data.time)] \/ time < data.time[1]

\* the cache lookup dropped: every call builds
NeedsCreate_Always(time) == TRUE

\* __call__: the cache lookup that decides whether to build
NeedsCreate(time) == time \notin DOMAIN interp

\* the check on the output ignoring the strict flag
NaNDetected_IgnoresStrict(strict, product) == IsNaN(product)

\* __call__: the check on the output
NaNDetected(strict, product) == strict /\ IsNaN(product)

\* the row lookup by nearest earlier entry of the index instead of equality
Loc_Nearest(time) ==
    {k \in 1..Len(data.time) :
        /\ data.time[k] <= time
        /\ \A j \in 1..Len(data.time) : data.time[j] <= time => j <= k}

\* _create_interp: loc = self.data['time'] == time, as the set of indices
Loc(time) == {k \in 1..Len(data.time) : data.time[k] = time}

\* _create_interp: b[i] = self.data[m]['b'][loc] needs exactly one element
LookupRaises(time) == Cardinality(Loc(time)) # 1

\* _create_interp: the readings of all stations at the time, in Mags order
BAt(time) ==
    LET k == CHOOSE j \in Loc(time) : TRUE
    IN  [i \in 1..Len(Mags) |-> data.b[Mags[i]][k]]

\* the filter keeping every station: a bad reading is left in the arrays
Filter_KeepAll(b) == [i \in 1..Len(b) |-> TRUE]

\* _create_interp: filter = np.isfinite(b)
Filter(b) == [i \in 1..Len(b) |-> IsFinite(b[i])]

\* the filter applied to the values alone: the coordinates stay unfiltered
FilteredPoints_Unfiltered(b) == Points

\* _create_interp: the arguments handed to LinearNDInterpolator
FilteredPoints(b) == Compress(Points, Filter(b))
FilteredValues(b) == Compress(b, Filter(b))

\* _create_interp of a MagArray whose dataset holds the stations mags only
\* (same time index, same readings): the arguments it hands to
\* LinearNDInterpolator for the time, and the surface it builds from them
PointsOver(mags, time) ==
    LET k == CHOOSE j \in Loc(time) : TRUE
        b == [i \in 1..Len(mags) |-> data.b[mags[i]][k]]
    IN  Compress([i \in 1..Len(mags) |-> Coord(mags[i])], Filter(b))
ValuesOver(mags, time) ==
    LET k == CHOOSE j \in Loc(time) : TRUE
        b == [i \in 1..Len(mags) |-> data.b[mags[i]][k]]
    IN  Compress(b, Filter(b))
SurfaceOver(mags, time) ==
    LinearNDInterpolator(PointsOver(mags, time), ValuesOver(mags, time))

\* the assignment binding the cache to a new dictionary with the one entry
DictSet_Fresh(d, key, value) == [x \in {key} |-> value]

\* the assignment keeping an entry already present (a setdefault)
DictSet_KeepFirst(d, key, value) ==
    IF key \in DOMAIN d THEN d
    ELSE [x \in DOMAIN d \cup {key} |-> IF x = key THEN value ELSE d[x]]

\* the dictionary d with d[key] = value
DictSet(d, key, value) ==
    [x \in DOMAIN d \cup {key} |-> IF x = key THEN value ELSE d[x]]


\* self.interp_mags before the first _create_interp: the attribute is not set
Unset == <<"(not set)">>

\* the record of one __call__: its arguments, the product it computed (empty
\* when it did not get that far) and what it returned (empty when it raised)
Outcome(kind, time, lon, lat, strict, product, returned) ==
    [kind |-> kind, time |-> time, lon |-> lon, lat |-> lat,
     strict |-> strict, product |-> product, returned |-> returned]

\* __call__ from the evaluation of the interpolator on: product, the NaN
\* check, return product
Finish(obj, time, lon, lat, strict) ==
    LET product == Evaluate(obj, lon, lat)
    IN  IF NaNDetected(strict, product)
        THEN Outcome("InvalidResultError", time, lon, lat, strict,
                     <<product>>, <<>>)
        ELSE Outcome("ok", time, lon, lat, strict, <<product>>, <<product>>)

\* _create_interp(time), called from __call__ on a cache miss, followed by
\* the rest of __call__ when it returns normally
CreateInterp(time, lon, lat, strict) ==
    /\ nstarted' = [nstarted EXCEPT ![time] = @ + 1]
    /\ IF LookupRaises(time)
       THEN /\ result' = Outcome("LookupError", time, lon, lat, strict,
                                 <<>>, <<>>)
            /\ UNCHANGED <<interp, interp_mags, nbuilt>>
       ELSE LET b == BAt(time)
                points == FilteredPoints(b)
                values == FilteredValues(b)
            IN  /\ interp_mags' = Compress(Mags, Filter(b))
                /\ IF ConstructorRaises(points, values)
                   THEN /\ result' = Outcome("QhullError", time, lon, lat,
                                             strict, <<>>, <<>>)
                        /\ UNCHANGED <<interp, nbuilt>>
                   ELSE LET obj == LinearNDInterpolator(points, values)
                        IN  /\ interp' = DictSet(interp, time, obj)
                            /\ nbuilt' = [nbuilt EXCEPT ![time] = @ + 1]
                            /\ result' = Finish(obj, time, lon, lat, strict)

\* MagArray.__call__(time, lon, lat, strict), run to completion
CallStep(time, lon, lat, strict) ==
    /\ nq' = nq + 1
    /\ nquery' = [nquery EXCEPT ![time] = @ + 1]
    /\ IF OutOfBounds(time)
       THEN /\ result' = Outcome("OutOfRangeError", time, lon, lat, strict,
                                 <<>>, <<>>)
            /\ UNCHANGED <<interp, interp_mags, nstarted, nbuilt>>
       ELSE IF NeedsCreate(time)
            THEN CreateInterp(time, lon, lat, strict)
            ELSE /\ result' = Finish(interp[time], time, lon, lat, strict)
                 /\ UNCHANGED <<interp, interp_mags, nstarted, nbuilt>>
    /\ UNCHANGED <<data, catvars, rollvars, concvars>>

\* one of the calls of a run of Spec
Call(time, lon, lat, strict) ==
    /\ nq < MaxQueries
    /\ CallStep(time, lon, lat, strict)

----------------------------------------------------------------------------
(* Idle values of each component *)

MagIdle ==
    /\ data = Dataset([k \in 1..Len(Times) |-> {}])
    /\ interp = <<>>
    /\ interp_mags = Unset
    /\ result = Outcome("none", 0, 0, 0, FALSE, <<>>, <<>>)
    /\ nquery = [t \in QueryTimes |-> 0]
    /\ nstarted = [t \in QueryTimes |-> 0]
    /\ nbuilt = [t \in QueryTimes |-> 0]
    /\ nq = 0

CatIdle ==
    /\ csv = <<>>
    /\ info = <<>>
    /\ nrows = 0

RollIdle ==
    /\ series = <<>>
    /\ width = 0
    /\ bmax = <<>>
    /\ ri = 0

ConcIdle ==
    /\ callers = <<>>
    /\ inserts = <<>>

----------------------------------------------------------------------------
(* Spec: a MagArray constructed over a dataset, then queried *)

Init ==
    /\ data \in {Dataset(good) : good \in Goods}
    /\ interp = <<>>
    /\ interp_mags = Unset
    /\ result = Outcome("none", 0, 0, 0, FALSE, <<>>, <<>>)
    /\ nquery = [t \in QueryTimes |-> 0]
    /\ nstarted = [t \in QueryTimes |-> 0]
    /\ nbuilt = [t \in QueryTimes |-> 0]
    /\ nq = 0
    /\ CatIdle
    /\ RollIdle
    /\ ConcIdle

Next ==
    \E time \in QueryTimes, p \in QueryPoints, strict \in BOOLEAN :
        Call(time, p[1], p[2], strict)

Spec == Init /\ [][Next]_vars

----------------------------------------------------------------------------
(* SpecHistory: the same MagArray queried at one point, through longer     *)
(* sequences of calls                                                      *)

\* the point every call of SpecHistory asks for
HistoryPoint == <<2, 1>>

\* one of the calls of a run of SpecHistory
CallAtPoint(time, strict) ==
    /\ nq < MaxHistory
    /\ CallStep(time, HistoryPoint[1], HistoryPoint[2], strict)

NextHistory ==
    \E time \in QueryTimes, strict \in BOOLEAN : CallAtPoint(time, strict)

SpecHistory == Init /\ [][NextHistory]_vars

----------------------------------------------------------------------------
(* SpecConcurrent: two threads each make one call of __call__ on the same  *)
(* MagArray. Nothing in the class takes a lock, so the threads interleave  *)
(* between the statements that read or write self.interp and               *)
(* self.interp_mags: the cache lookup, the construction, the insertion,    *)
(* the evaluation.                                                         *)

Callers == {"T1", "T2"}

\* the object a thread constructed, told apart from an equal one built by
\* the other thread
WithId(obj, c) ==
    [points |-> obj.points, values |-> obj.values,
     simplices |-> obj.simplices, id |-> c]

\* where a thread is in its call, and its locals
Frame(pc, obj, res) == [pc |-> pc, obj |-> obj, result |-> res]

\* __call__ up to the cache lookup: the bounds check, then
\* `if time not in self.interp`
Enter(c, time, lon, lat, strict) ==
    LET args == Outcome("none", time, lon, lat, strict, <<>>, <<>>)
    IN  /\ callers[c].pc = "idle"
        /\ nquery' = [nquery EXCEPT ![time] = @ + 1]
        /\ callers' = [callers EXCEPT ![c] =
              IF OutOfBounds(time)
              THEN Frame("done", <<>>,
                         Outcome("OutOfRangeError", time, lon, lat, strict,
                                 <<>>, <<>>))
              ELSE IF NeedsCreate(time)
                   THEN Frame("create", <<>>, args)
                   ELSE Frame("eval", <<>>, args)]
        /\ UNCHANGED <<data, interp, interp_mags, result, nstarted, nbuilt,
                       nq, inserts, catvars, rollvars>>

\* _create_interp up to the construction of the interpolator object: the row
\* lookup, the filter, self.interp_mags, LinearNDInterpolator(...)
Build(c) ==
    LET a == callers[c].result
    IN  /\ callers[c].pc = "create"
        /\ nstarted' = [nstarted EXCEPT ![a.time] = @ + 1]
        /\ IF LookupRaises(a.time)
           THEN /\ callers' = [callers EXCEPT ![c] =
                      Frame("done", <<>>,
                            Outcome("LookupError", a.time, a.lon, a.lat,
                                    a.strict, <<>>, <<>>))]
                /\ UNCHANGED interp_mags
           ELSE LET b == BAt(a.time)
                    points == FilteredPoints(b)
                    values == FilteredValues(b)
                IN  /\ interp_mags' = Compress(Mags, Filter(b))
                    /\ callers' = [callers EXCEPT ![c] =
                          IF ConstructorRaises(points, values)
                          THEN Frame("done", <<>>,
                                     Outcome("QhullError", a.time, a.lon,
                                             a.lat, a.strict, <<>>, <<>>))
                          ELSE Frame("insert",
                                     WithId(LinearNDInterpolator(points,
                                                                 values), c),
                                     a)]
        /\ UNCHANGED <<data, interp, result, nquery, nbuilt, nq, inserts,
                       catvars, rollvars>>

\* _create_interp: the store self.interp[time] = <the object constructed>
Insert(c) ==
    LET a == callers[c].result
    IN  /\ callers[c].pc = "insert"
        /\ interp' = DictSet(interp, a.time, callers[c].obj)
        /\ nbuilt' = [nbuilt EXCEPT ![a.time] = @ + 1]
        /\ inserts' = Append(inserts, <<a.time, c>>)
        /\ callers' = [callers EXCEPT ![c].pc = "eval"]
        /\ UNCHANGED <<data, interp_mags, result, nquery, nstarted, nq,
                       catvars, rollvars>>

\* __call__ from product = self.interp[time](lon, lat) on
Eval(c) ==
    LET a == callers[c].result
    IN  /\ callers[c].pc = "eval"
        /\ callers' = [callers EXCEPT ![c] =
              Frame("done", callers[c].obj,
                    Finish(interp[a.time], a.time, a.lon, a.lat, a.strict))]
        /\ UNCHANGED <<data, interp, interp_mags, result, nquery, nstarted,
                       nbuilt, nq, inserts, catvars, rollvars>>

InitConcurrent ==
    /\ data \in {Dataset(good) : good \in Goods}
    /\ interp = <<>>
    /\ interp_mags = Unset
    /\ result = Outcome("none", 0, 0, 0, FALSE, <<>>, <<>>)
    /\ nquery = [t \in QueryTimes |-> 0]
    /\ nstarted = [t \in QueryTimes |-> 0]
    /\ nbuilt = [t \in QueryTimes |-> 0]
    /\ nq = 0
    /\ CatIdle
    /\ RollIdle
    /\ callers = [c \in Callers |->
                    Frame("idle", <<>>,
                          Outcome("none", 0, 0, 0, FALSE, <<>>, <<>>))]
    /\ inserts = <<>>

NextConcurrent ==
    \E c \in Callers :
        \/ \E time \in QueryTimes, strict \in BOOLEAN :
              Enter(c, time, HistoryPoint[1], HistoryPoint[2], strict)
        \/ Build(c)
        \/ Insert(c)
        \/ Eval(c)

SpecConcurrent == InitConcurrent /\ [][NextConcurrent]_vars


----------------------------------------------------------------------------
(* SpecCatalog: load_radar_info over the data rows of the station CSV.     *)
(* A row is "name", parts[1], parts[2]; the dictionary holds               *)
(* [float(parts[1]), float(parts[2])], which the docstring and the callers *)
(* read as [geolat, geolon].  Degrees are integers here.                   *)

\* the rows a file may hold
RadarNames == {"KABR", "KLNX"}
RawLats == {42}
RawLons == {-180, -10, 0, 10, 180}
Rows == [station : RadarNames, lat : RawLats, lon : RawLons]

\* the normalization with a strict comparison
NormalizeLon_Strict(lon) == IF lon < 0 THEN lon + 360 ELSE lon

\* if info[station][1]<=0: info[station][1]+=360.0
NormalizeLon(lon) == IF lon <= 0 THEN lon + 360 ELSE lon

\* one iteration of the loop over f.readlines()
ReadRow ==
    /\ nrows < Len(csv)
    /\ LET row == csv[nrows + 1]
       IN  info' = DictSet(info, row.station,
                           <<row.lat, NormalizeLon(row.lon)>>)
    /\ nrows' = nrows + 1
    /\ UNCHANGED <<csv, magvars, rollvars, concvars>>

InitCatalog ==
    /\ csv \in UNION {[1..n -> Rows] : n \in 0..MaxRows}
    /\ info = <<>>
    /\ nrows = 0
    /\ MagIdle
    /\ RollIdle
    /\ ConcIdle

NextCatalog == ReadRow

SpecCatalog == InitCatalog /\ [][NextCatalog]_vars

----------------------------------------------------------------------------
(* SpecRolling: the rolling maximum of data[s]['b'] in convert_netcdf.py   *)

\* the readings a series may hold
SeriesValues == {NaN, 1, 2, 5}

\* args.windowsize: "Must be an odd number"
WindowSizes == {1, 3, 5}

\* width = int(np.floor(args.windowsize/2))
Width(windowsize) == windowsize \div 2

Max2(x, y) == IF x > y THEN x ELSE y
Min2(x, y) == IF x < y THEN x ELSE y

\* the largest element of a non-empty set of numbers
SetMax(S) == CHOOSE x \in S : \A y \in S : y <= x

\* vals = data[s]['b'][istart:istop], as the set of its finite elements;
\* Python indices are 0-based and the slice excludes istop
FiniteVals(b, istart, istop) ==
    {b[j + 1] : j \in {x \in istart..(istop - 1) : IsFinite(b[x + 1])}}

\* the value stored in data[s]['bmax'][i]
RollingMaxAt(b, w, i) ==
    LET nPoints == Len(b)
        istart == Max2(0, i - w)
        istop == Min2(i + w, nPoints)
        vals == FiniteVals(b, istart, istop)
    IN  IF vals # {} THEN SetMax(vals) ELSE NaN

\* one iteration of: for i in range(nPoints)
RollStep ==
    /\ ri < Len(series)
    /\ bmax' = Append(bmax, RollingMaxAt(series, width, ri))
    /\ ri' = ri + 1
    /\ UNCHANGED <<series, width, magvars, catvars, concvars>>

InitRolling ==
    /\ series \in UNION {[1..n -> SeriesValues] : n \in 1..MaxSeriesLen}
    /\ width \in {Width(ws) : ws \in WindowSizes}
    /\ bmax = <<>>
    /\ ri = 0
    /\ MagIdle
    /\ CatIdle
    /\ ConcIdle

NextRolling == RollStep

SpecRolling == InitRolling /\ [][NextRolling]_vars


----------------------------------------------------------------------------
(* Vocabulary of the properties *)

\* the timestamp appears in the time index
InIndex(t) == \E k \in 1..Len(data.time) : data.time[k] = t

\* the timestamp lies before the first or after the last entry of the index
OutsideSpan(t) == t < data.time[1] \/ t > data.time[Len(data.time)]

\* the stations with a finite instantaneous reading at the timestamp
FiniteStationsAt(t) ==
    {m \in Stations :
        \E k \in 1..Len(data.time) : data.time[k] = t /\ IsFinite(data.b[m][k])}

\* the reading of station m at a timestamp of the index
ReadingAt(m, t) ==
    data.b[m][CHOOSE k \in 1..Len(data.time) : data.time[k] = t]

\* the station set spans a triangle: three of its stations are not collinear
Triangulable(S) ==
    \E a \in S, b \in S, c \in S : Cross(Coord(a), Coord(b), Coord(c)) # 0

\* the point lies in the convex hull of a station set that spans a triangle:
\* on the inner side of every line through two stations that has the whole
\* set on one side
InHull(p, S) ==
    /\ Triangulable(S)
    /\ \A a \in S, b \in S :
         (a # b /\ \A c \in S : Cross(Coord(a), Coord(b), Coord(c)) >= 0)
            => Cross(Coord(a), Coord(b), p) >= 0

\* a call has been made
Called == result.kind # "none"

----------------------------------------------------------------------------
(* Properties of MagArray, checked under Spec *)

\* C1: every cached surface is built from exactly the (coordinate, reading)
\* pairs of the stations with a finite reading at its timestamp, each reading
\* paired with the coordinate of its own station; and whenever construction
\* ran for a timestamp of the index whose finite stations span a triangle,
\* that surface exists (the filtered arrays fit each other).
C1_JointFilter ==
    \A t \in QueryTimes :
        /\ t \in DOMAIN interp =>
             LET obj == interp[t]
                 n == Len(obj.points)
                 kept == FiniteStationsAt(t)
             IN  /\ Len(obj.values) = n
                 /\ n = Cardinality(kept)
                 /\ \A i \in 1..n : \E m \in kept :
                        /\ obj.points[i] = Coord(m)
                        /\ obj.values[i] = ReadingAt(m, t)
                 /\ \A m \in kept : \E i \in 1..n :
                        /\ obj.points[i] = Coord(m)
                        /\ obj.values[i] = ReadingAt(m, t)
        /\ (nstarted[t] > 0 /\ InIndex(t) /\ Triangulable(FiniteStationsAt(t)))
             => t \in DOMAIN interp

\* a surface is cached for a timestamp at which some station was excluded
C1_Witness ==
    \E t \in DOMAIN interp :
        /\ Cardinality(FiniteStationsAt(t)) < Len(Mags)
        /\ Len(interp[t].points) = Cardinality(FiniteStationsAt(t))

\* C2 as stated: for every timestamp queried at least once, surface
\* construction has run exactly once.
C2_OncePerQueried ==
    \A t \in QueryTimes : nquery[t] > 0 => nstarted[t] = 1

\* C2 amended: a timestamp with a cached surface had construction run exactly
\* once (one insertion), however many queries used it; a timestamp without one
\* has no insertion, and construction ran never if it lies outside the span of
\* the index and once per query otherwise.
C2_OncePerBuilt ==
    \A t \in QueryTimes :
        IF t \in DOMAIN interp
        THEN nstarted[t] = 1 /\ nbuilt[t] = 1 /\ nquery[t] >= 1
        ELSE /\ nbuilt[t] = 0
             /\ nstarted[t] = IF OutsideSpan(t) THEN 0 ELSE nquery[t]

\* a cached timestamp was queried twice: the second query was a cache hit
C2_Witness ==
    \E t \in DOMAIN interp : nquery[t] >= 2 /\ nstarted[t] = 1

\* C3: a call whose timestamp lies outside the span of the time index fails
\* with the out-of-range error without evaluating anything, and no timestamp
\* outside the span ever has construction run or a surface cached.
C3_OutOfRange ==
    /\ (Called /\ OutsideSpan(result.time)) =>
          /\ result.kind = "OutOfRangeError"
          /\ result.product = <<>>
          /\ result.returned = <<>>
    /\ \A t \in QueryTimes :
          OutsideSpan(t) =>
             nstarted[t] = 0 /\ nbuilt[t] = 0 /\ t \notin DOMAIN interp

\* a call later than the last entry was refused
C3_Witness ==
    /\ result.kind = "OutOfRangeError"
    /\ result.time > data.time[Len(data.time)]
    /\ nquery[result.time] >= 1

\* C4 as stated: a call at the first or the last entry succeeds, and a call
\* one tick before the first or after the last raises the out-of-range error.
C4_BoundarySucceeds ==
    Called =>
      /\ result.time \in {data.time[1], data.time[Len(data.time)]}
            => result.kind = "ok"
      /\ result.time \in {data.time[1] - 1, data.time[Len(data.time)] + 1}
            => result.kind = "OutOfRangeError"

\* C4 amended: a call at the first or the last entry passes the range check;
\* it succeeds unless the finite stations of that timestamp span no triangle
\* (construction fails) or strict is set and the product is NaN.  A call one
\* tick before the first or after the last raises the out-of-range error.
C4_InclusiveBounds ==
    Called =>
      /\ result.time \in {data.time[1], data.time[Len(data.time)]} =>
            /\ result.kind \in {"ok", "QhullError", "InvalidResultError"}
            /\ result.kind = "QhullError"
                  <=> ~Triangulable(FiniteStationsAt(result.time))
            /\ result.kind = "InvalidResultError" => result.strict
      /\ result.time \in {data.time[1] - 1, data.time[Len(data.time)] + 1}
            => result.kind = "OutOfRangeError"

\* a call at the last entry of the index succeeded
C4_Witness ==
    result.kind = "ok" /\ result.time = data.time[Len(data.time)]

\* C5 as stated: a call for a timestamp of the index at which fewer than 3
\* stations have a finite reading raises InsufficientStationsError.
C5_InsufficientStationsError ==
    (Called /\ InIndex(result.time)
            /\ Cardinality(FiniteStationsAt(result.time)) < 3)
        => result.kind = "InsufficientStationsError"

\* C6: once the product is computed, the call raises the invalid-result
\* error exactly when strict is set and the product is NaN; otherwise it
\* returns the product unchanged, NaN included.
C6_StrictPolicy ==
    result.product # <<>> =>
        LET product == result.product[1]
        IN  /\ product = Evaluate(interp[result.time], result.lon, result.lat)
            /\ (result.strict /\ IsNaN(product)) =>
                  result.kind = "InvalidResultError" /\ result.returned = <<>>
            /\ ~(result.strict /\ IsNaN(product)) =>
                  result.kind = "ok" /\ result.returned = <<product>>

\* a non-strict call returned NaN
C6_Witness ==
    /\ result.kind = "ok"
    /\ ~result.strict
    /\ result.returned # <<>>
    /\ IsNaN(result.returned[1])

\* C7 as stated: every successful call returns a pair (instantaneous,
\* rollingMax).
C7_ReturnsPair ==
    result.kind = "ok" => Len(result.returned) = 2

\* C10 as stated: for a timestamp strictly within the span of the index and a
\* point in the convex hull of the stations with a finite reading at it, the
\* call returns two finite values.
C10_TwoFiniteInHull ==
    (/\ Called
     /\ data.time[1] < result.time
     /\ result.time < data.time[Len(data.time)]
     /\ InHull(<<result.lon, result.lat>>, FiniteStationsAt(result.time)))
        => /\ result.kind = "ok"
           /\ Len(result.returned) = 2
           /\ \A i \in 1..Len(result.returned) : ~IsNaN(result.returned[i])

\* C11 as stated: a non-strict call that returns for a point outside the
\* convex hull of the stations with a finite reading at its timestamp
\* returns two values, both of them NaN.
C11_BothNaNOutsideHull ==
    (/\ Called
     /\ result.kind = "ok"
     /\ ~result.strict
     /\ ~InHull(<<result.lon, result.lat>>, FiniteStationsAt(result.time)))
        => /\ Len(result.returned) = 2
           /\ \A i \in 1..Len(result.returned) : IsNaN(result.returned[i])

\* the station list with one station removed
Without(mags, s) == SelectSeq(mags, LAMBDA m : m # s)

\* the query point of the last call is the coordinate of station m
AtStation(m) == <<result.lon, result.lat>> = Coord(m)

\* exactly one station has a non-finite reading at the timestamp of the index
OneBadAt(t) ==
    InIndex(t) /\ Cardinality(FiniteStationsAt(t)) = Len(Mags) - 1

\* the station with the non-finite reading at such a timestamp
BadAt(t) == CHOOSE m \in Stations : m \notin FiniteStationsAt(t)

\* C12 as stated: at a timestamp where one station has a non-finite reading,
\* a call that returns at the coordinate of a remaining station returns what
\* the dataset without the bad station gives there, and a call that returns
\* at the coordinate of the bad station returns a finite value, never the
\* non-finite reading.
C12_BadStationNeverNonFinite ==
    (Called /\ result.kind = "ok" /\ OneBadAt(result.time)) =>
        LET t == result.time
            s == BadAt(t)
            removed == SurfaceOver(Without(Mags, s), t)
        IN  /\ \A r \in Stations \ {s} : AtStation(r) =>
                   result.returned =
                       <<Evaluate(removed, result.lon, result.lat)>>
            /\ AtStation(s) => ~IsNaN(result.returned[1])

\* C12 amended: at a timestamp where one station has a non-finite reading,
\* the call fails in the triangulation exactly when the dataset without the
\* bad station would; otherwise the value it computes at the coordinate of
\* any station, the bad one included, is the value the dataset without the
\* bad station gives there: the station's own reading at a remaining
\* station, and at the bad station a finite combination of the remaining
\* readings when its coordinate lies in their hull and NaN when it does not.
C12_ExcludedLikeRemoved ==
    (Called /\ ~OutsideSpan(result.time) /\ OneBadAt(result.time)) =>
        LET t == result.time
            s == BadAt(t)
            rest == Without(Mags, s)
        IN  IF ConstructorRaises(PointsOver(rest, t), ValuesOver(rest, t))
            THEN result.kind = "QhullError"
            ELSE /\ result.kind \in {"ok", "InvalidResultError"}
                 /\ \A m \in Stations : AtStation(m) =>
                        result.product =
                            <<Evaluate(SurfaceOver(rest, t),
                                       result.lon, result.lat)>>
                 /\ \A r \in Stations \ {s} : AtStation(r) =>
                        result.product = <<Frac(ReadingAt(r, t), 1)>>
                 /\ AtStation(s) =>
                        (IsNaN(result.product[1])
                            <=> ~InHull(Coord(s), FiniteStationsAt(t)))

\* a call returned a finite value at the coordinate of the one station whose
\* reading at the timestamp is non-finite
C12_Witness ==
    /\ Called
    /\ result.kind = "ok"
    /\ OneBadAt(result.time)
    /\ AtStation(BadAt(result.time))
    /\ ~IsNaN(result.returned[1])

\* C13: no call, whatever its timestamp and whether it returns or raises,
\* removes a cached timestamp, changes the surface cached for it or inserts
\* a surface for it again: the cache only grows.
C13_CacheOnlyGrows ==
    [][\A t \in DOMAIN interp :
           /\ t \in DOMAIN interp'
           /\ interp'[t] = interp[t]
           /\ nbuilt'[t] = nbuilt[t]]_vars

\* with a surface cached for one timestamp, a later call for another
\* timestamp has failed
C13_Witness ==
    /\ Called
    /\ \E t \in DOMAIN interp :
          /\ t # result.time
          /\ result.kind \in {"OutOfRangeError", "LookupError", "QhullError",
                              "InvalidResultError"}

\* C14: a call whose timestamp lies within the span of the time index but
\* is not an entry of it passes the range check, enters surface construction
\* and fails there at the row lookup, every time it is made; no surface is
\* ever cached for such a timestamp.
C14_AbsentTimestampFails ==
    /\ (Called /\ ~OutsideSpan(result.time) /\ ~InIndex(result.time))
          => /\ result.kind = "LookupError"
             /\ nstarted[result.time] = nquery[result.time]
    /\ \A t \in QueryTimes :
          ~InIndex(t) => t \notin DOMAIN interp /\ nbuilt[t] = 0

\* a call for a timestamp between two entries of the index has failed at
\* the row lookup, after construction was entered
C14_Witness ==
    /\ Called
    /\ data.time[1] < result.time
    /\ result.time < data.time[Len(data.time)]
    /\ ~InIndex(result.time)
    /\ result.kind = "LookupError"
    /\ nstarted[result.time] >= 1
    /\ result.time \notin DOMAIN interp

----------------------------------------------------------------------------
(* Properties of two unsynchronized callers, checked under SpecConcurrent *)

\* the insertions made for the timestamp, as positions in inserts
InsertsOf(t) == {i \in 1..Len(inserts) : inserts[i][1] = t}

\* the threads that saw no cache entry for the timestamp and went on to
\* construct and insert a surface for it
Inserted(t) ==
    {c \in Callers :
        /\ callers[c].result.time = t
        /\ callers[c].pc \in {"eval", "done"}
        /\ callers[c].obj # <<>>}

\* C15: without synchronization every thread that saw a cache miss for a
\* timestamp constructs and inserts a surface for it, whatever the other
\* thread has inserted since: the number of insertions for a timestamp is
\* the number of threads that missed on it and got through construction,
\* and the cache holds the object of the latest insertion.
C15_LaterInsertOverwrites ==
    \A t \in QueryTimes :
        /\ nbuilt[t] = Cardinality(InsertsOf(t))
        /\ nbuilt[t] = Cardinality(Inserted(t))
        /\ nstarted[t] >= nbuilt[t]
        /\ t \in DOMAIN interp <=> InsertsOf(t) # {}
        /\ \A i \in InsertsOf(t) :
              (\A j \in InsertsOf(t) : j <= i) => interp[t].id = inserts[i][2]

\* both threads missed the cache for the same timestamp, both constructed a
\* surface for it, and the second insertion replaced the first
C15_Witness ==
    \E t \in QueryTimes :
        /\ nquery[t] = 2
        /\ nstarted[t] = 2
        /\ nbuilt[t] = 2
        /\ Len(inserts) = 2
        /\ inserts[1][2] # inserts[2][2]
        /\ interp[t].id = inserts[2][2]

----------------------------------------------------------------------------
(* Properties of self.interp_mags, checked under SpecHistory *)

\* the stations with a finite reading at the timestamp, in dataset order
FiniteMagsAt(t) == SelectSeq(Mags, LAMBDA m : m \in FiniteStationsAt(t))

\* C16 as stated: interp_mags is the finite-reading station list of the
\* timestamp whose surface was most recently constructed: a call that
\* constructs a surface sets it to the list of its timestamp, and any other
\* call leaves it unchanged.
C16_MagsOfLastBuilt ==
    [][LET t == result'.time
       IN  IF t \in DOMAIN interp' /\ t \notin DOMAIN interp
           THEN interp_mags' = FiniteMagsAt(t)
           ELSE interp_mags' = interp_mags]_vars

\* C16 amended: interp_mags is the finite-reading station list of the
\* timestamp for which surface construction most recently got past the row
\* lookup, whether or not the triangulation then succeeded: a call that
\* misses the cache for a timestamp of the index sets it to the list of that
\* timestamp, and any other call (a cache hit, a timestamp outside the span
\* of the index, a timestamp inside the span that is no entry of it) leaves
\* it unchanged.
C16_MagsOfLastFilter ==
    [][LET t == result'.time
       IN  IF InIndex(t) /\ t \notin DOMAIN interp
           THEN interp_mags' = FiniteMagsAt(t)
           ELSE interp_mags' = interp_mags]_vars

\* after a miss on one timestamp, a miss on a second and a hit on the first,
\* interp_mags is the list of the second timestamp and not that of the first
C16_Witness ==
    \E t1 \in DOMAIN interp, t2 \in DOMAIN interp :
        /\ t1 # t2
        /\ nq = 3
        /\ result.time = t1
        /\ nquery[t1] = 2 /\ nstarted[t1] = 1
        /\ nquery[t2] = 1
        /\ interp_mags = FiniteMagsAt(t2)
        /\ interp_mags # FiniteMagsAt(t1)

----------------------------------------------------------------------------
(* Properties of load_radar_info, checked under SpecCatalog *)

\* the last row read for a station
LastRowOf(station) ==
    csv[CHOOSE i \in 1..nrows :
          /\ csv[i].station = station
          /\ \A j \in (i + 1)..nrows : csv[j].station # station]

\* C8 as stated: every loaded longitude lies in [0, 360).
C8_LonInHalfOpenRange ==
    \A st \in DOMAIN info : 0 <= info[st][2] /\ info[st][2] < 360

\* C8 amended: each station read maps to [lat, lon] of its last row, the
\* longitude with 360 added when the raw value is <= 0 (raw -10 loads as 350,
\* raw 0 as 360) and kept otherwise; for raw longitudes in [-180, 180] every
\* loaded longitude lies in (0, 360].
C8_LonNormalized ==
    /\ DOMAIN info = {csv[i].station : i \in 1..nrows}
    /\ \A st \in DOMAIN info :
          LET row == LastRowOf(st)
          IN  /\ info[st][1] = row.lat
              /\ row.lon <= 0 => info[st][2] = row.lon + 360
              /\ row.lon > 0 => info[st][2] = row.lon
              /\ row.lon = -10 => info[st][2] = 350
              /\ 0 < info[st][2]
              /\ info[st][2] <= 360

\* a row with raw longitude -10 has been loaded as 350
C8_Witness ==
    \E st \in DOMAIN info : LastRowOf(st).lon = -10 /\ info[st][2] = 350

----------------------------------------------------------------------------
(* Properties of the rolling maximum, checked under SpecRolling *)

\* the finite readings in the closed window [i - w, i + w] clipped to the
\* series (i is 0-based)
ClosedWindowVals(b, w, i) ==
    {b[j + 1] : j \in {x \in Max2(0, i - w)..Min2(i + w, Len(b) - 1) :
                          IsFinite(b[x + 1])}}

\* C9 as stated: every computed entry of the rolling maximum is the largest
\* finite reading of the closed window around it, and NaN exactly when the
\* window holds no finite reading.
C9_ClosedWindowMax ==
    \A i \in 0..(ri - 1) :
        LET vals == ClosedWindowVals(series, width, i)
        IN  bmax[i + 1] = IF vals = {} THEN NaN ELSE SetMax(vals)

=============================================================================
